---- MODULE Spec2Model ----
(***************************************************************************)
(* Model of the diabetic patient-care dashboard (src/core.py and the page  *)
(* scripts under src/pages).  The state is the module-level dataset        *)
(* df_raw, Streamlit's session state, and what the last run of a page      *)
(* script computed.  Every user interaction reruns the script of the       *)
(* current page from top to bottom, so each action is one whole run.       *)
(*                                                                         *)
(* Numbers.  Percentages and means that the code rounds to one decimal are *)
(* held as integer tenths (30.0 is 300), the odds ratio as integer         *)
(* hundredths (0.01 is 1).  The values rounded are numpy float64 scalars,  *)
(* whose round() is rint(x * 10^n) / 10^n: round half to even.  The model  *)
(* computes on exact fractions.                                            *)
(***************************************************************************)
EXTENDS Integers, Sequences, FiniteSets, TLC

VARIABLES
    df_raw,          \* core.df_raw: the dataset loaded at import
    session_state,   \* st.session_state: key -> BOOLEAN
    page,            \* the page whose script ran last
    search,          \* the text of the Data Explorer search box
    selected,        \* age_selected, gender_selected, adm_selected of the last run
    df,              \* the frame get_filtered_data returned
    kpis,            \* the dict compute_kpis returned
    overview,        \* what show_overview derived (distributions, odds ratio)
    df_view,         \* the frame show_data_explorer displays
    age_readmit      \* the EDA page's readmission rate by age group

vars == <<df_raw, session_state, page, search, selected, df, kpis, overview,
          df_view, age_readmit>>

(***************************************************************************)
(* Bounds of the model.                                                    *)
(***************************************************************************)
MaxRows == 2         \* rows of a dataset whose filter columns vary
MaxAggRows == 3      \* rows of a dataset whose measure columns vary

(***************************************************************************)
(* Values.                                                                 *)
(***************************************************************************)
\* pd.to_numeric(errors="coerce") turns a non-numeric medication count into
\* NaN.  Medication counts are non-negative, so a negative marker stands for it.
NaN == -1
\* x / 0 on float64 is inf (no exception); the marker stands for it.
Inf == -2

AgeGroups == {"[60-70)", "[70-80)"}
Genders == {"Female", "Male"}
AdmTypes == {1, 2}
ReadmittedValues == {"<30", ">30", "NO"}

Row(a, g, t, los, meds, r) ==
    [age_group |-> a, gender |-> g, admission_type_id |-> t,
     time_in_hospital |-> los, num_medications |-> meds, readmitted |-> r]

\* Rows whose filter columns vary: every dimension takes two values, and the
\* measures differ from row to row.
FilterRows ==
    {Row(a, g,
         IF (a = "[60-70)") = (g = "Female") THEN 1 ELSE 2,
         IF g = "Female" THEN 3 ELSE 6,
         IF a = "[60-70)" THEN 8 ELSE 12,
         IF g = "Female" THEN "<30" ELSE "NO") :
        a \in AgeGroups, g \in Genders}

\* Rows whose KPI columns vary: around the polypharmacy threshold, a missing
\* count, and every readmission category.
KpiRows ==
    {Row("[70-80)", "Female", 1,
         IF meds = NaN THEN 1 ELSE IF meds = 9 THEN 2 ELSE 4, meds, r) :
        meds \in {NaN, 9, 10}, r \in ReadmittedValues}

\* Rows whose binned columns sit on and around the bin edges.
BinRows ==
    {Row("[70-80)", "Female", 1, los, 12, "<30") : los \in {0, 1, 2, 20, 21}}
    \cup {Row("[70-80)", "Female", 1, 3, meds, ">30") :
            meds \in {NaN, 0, 5, 10, 50, 51}}

RECURSIVE SeqsUpTo(_, _)
SeqsUpTo(S, n) ==
    IF n = 0 THEN {<<>>}
    ELSE LET shorter == SeqsUpTo(S, n - 1)
         IN  shorter \cup {Append(s, x) : s \in {t \in shorter : Len(t) = n - 1},
                                          x \in S}

RECURSIVE Repeat(_, _)
Repeat(x, n) == IF n = 0 THEN <<>> ELSE Append(Repeat(x, n - 1), x)

\* The worked datasets of the documentation: 10 rows with 3 readmitted within
\* 30 days; 5 + 5 rows filling only the b and c cells of the 2x2 table; the
\* lengths of stay 1, 3, 5, 9, 15.
ExampleDatasets ==
    { Repeat(Row("[70-80)", "Female", 1, 4, 12, "<30"), 3)
        \o Repeat(Row("[70-80)", "Female", 1, 2, 8, ">30"), 2)
        \o Repeat(Row("[70-80)", "Female", 1, 2, 8, "NO"), 5),
      Repeat(Row("[70-80)", "Female", 1, 4, 12, "NO"), 5)
        \o Repeat(Row("[70-80)", "Female", 1, 2, 8, "<30"), 5),
      [i \in 1..5 |->
          Row("[70-80)", "Female", 1, <<1, 3, 5, 9, 15>>[i], 12, "<30")] }

FilterDatasets == SeqsUpTo(FilterRows, MaxRows)
AggDatasets ==
    SeqsUpTo(KpiRows, MaxAggRows) \cup SeqsUpTo(BinRows, MaxAggRows)
        \cup ExampleDatasets

(***************************************************************************)
(* Frames: a frame is a sequence of rows; a column is a sequence of values; *)
(* a mask is a sequence of booleans.                                       *)
(***************************************************************************)
Column(frame, name) == [i \in 1..Len(frame) |-> frame[i][name]]

\* Series.dropna().unique(): the distinct values of a column (the model's
\* filter columns hold no missing value).  sorted() only fixes the order in
\* which the checkboxes are drawn, so the values are held as a set.
Unique(frame, name) == {frame[i][name] : i \in 1..Len(frame)}

\* Series.isin(values)
isin(col, values) == [i \in 1..Len(col) |-> col[i] \in values]

\* Series == value
EqualTo(col, value) == [i \in 1..Len(col) |-> col[i] = value]

\* Series >= value: a comparison with NaN is False
GreaterEqual(col, value) ==
    [i \in 1..Len(col) |-> col[i] # NaN /\ col[i] >= value]

\* mask & mask, ~mask
MaskAnd(m1, m2) == [i \in 1..Len(m1) |-> m1[i] /\ m2[i]]
MaskNot(m) == [i \in 1..Len(m) |-> ~m[i]]

\* frame[mask]: the rows whose mask entry is True, in the frame's order
RECURSIVE BoolIndex(_, _)
BoolIndex(frame, mask) ==
    IF Len(frame) = 0 THEN <<>>
    ELSE LET n == Len(frame)
             front == BoolIndex(SubSeq(frame, 1, n - 1), SubSeq(mask, 1, n - 1))
         IN  IF mask[n] THEN Append(front, frame[n]) ELSE front

\* mask.sum(): the number of True entries
RECURSIVE MaskSum(_)
MaskSum(m) ==
    IF Len(m) = 0 THEN 0
    ELSE MaskSum(SubSeq(m, 1, Len(m) - 1)) + (IF m[Len(m)] THEN 1 ELSE 0)

\* Series.sum() of a numeric column without missing values
RECURSIVE ColumnSum(_)
ColumnSum(col) ==
    IF Len(col) = 0 THEN 0
    ELSE ColumnSum(SubSeq(col, 1, Len(col) - 1)) + col[Len(col)]

(***************************************************************************)
(* Exact fractions and rounding.                                           *)
(***************************************************************************)
Frac(n, d) == [num |-> n, den |-> d]
FracTimes(f, g) == Frac(f.num * g.num, f.den * g.den)
FracOver(f, g) == Frac(f.num * g.den, f.den * g.num)

\* rint: the nearest integer, a tie going to the even neighbour
RoundHalfEven(f) ==
    LET q == f.num \div f.den
        r == f.num % f.den
    IN  IF 2 * r < f.den THEN q
        ELSE IF 2 * r > f.den THEN q + 1
        ELSE IF q % 2 = 0 THEN q ELSE q + 1

\* round(x, 1) and round(x, 2) of a non-negative float64, in tenths and in
\* hundredths; 0/0 is NaN and x/0 is inf, and both round to themselves.
RoundTo(f, scale) ==
    IF f.den = 0 THEN (IF f.num = 0 THEN NaN ELSE Inf)
    ELSE RoundHalfEven(Frac(f.num * scale, f.den))

\* mask.mean() and Series.mean(): the mean of an empty series is NaN (0/0)
MaskMean(m) == Frac(MaskSum(m), Len(m))
ColumnMean(col) == Frac(ColumnSum(col), Len(col))

(***************************************************************************)
(* Session state and the sidebar filters (get_filtered_data).              *)
(*                                                                         *)
(* A key is held as its prefix and the rest of its name: "all_age" is      *)
(* Key("all_", "age"), f"age_{a}" is Key("age_", a).  Streamlit keeps a    *)
(* keyed widget's value in the session state while the widget is drawn and *)
(* discards it after a run that does not draw the widget; keys the script  *)
(* assigns itself ("show_about") stay until they are popped.               *)
(***************************************************************************)
Key(prefix, name) == [prefix |-> prefix, name |-> name]

all_age == Key("all_", "age")
all_gender == Key("all_", "gender")
all_adm == Key("all_", "adm")
show_about == Key("show_about", "")
age_key(a) == Key("age_", a)
gender_key(g) == Key("gender_", g)
adm_key(a) == Key("adm_", ToString(a))

\* key.startswith(("age_", "gender_", "adm_", "all_"))
ResetPrefixes == {"age_", "gender_", "adm_", "all_"}

Restrict(f, S) == [k \in S |-> f[k]]

\* st.checkbox(label, value=default, key=key): the widget's current value
checkbox_unticked(ss, key, default) == IF key \in DOMAIN ss THEN ss[key] ELSE FALSE
checkbox(ss, key, default) == IF key \in DOMAIN ss THEN ss[key] ELSE default

\* The loop of the reset button: every key with one of the prefixes is popped.
PopFilterKeysButAll(ss) ==
    Restrict(ss, {k \in DOMAIN ss : k.prefix \notin {"age_", "gender_", "adm_"}})
PopFilterKeys(ss) ==
    Restrict(ss, {k \in DOMAIN ss : k.prefix \notin ResetPrefixes})

\* The boolean index of the filter: AND across the three dimensions.
FilterMaskAny(raw, sel) ==
    [i \in 1..Len(raw) |->
        \/ raw[i].age_group \in sel.age_selected
        \/ raw[i].gender \in sel.gender_selected
        \/ raw[i].admission_type_id \in sel.adm_selected]
\* An empty selection read as "no filter on this dimension".
FilterMaskEmptyIsAll(raw, sel) ==
    [i \in 1..Len(raw) |->
        /\ sel.age_selected = {} \/ raw[i].age_group \in sel.age_selected
        /\ sel.gender_selected = {} \/ raw[i].gender \in sel.gender_selected
        /\ \/ sel.adm_selected = {}
           \/ raw[i].admission_type_id \in sel.adm_selected]
FilterMask(raw, sel) ==
    MaskAnd(MaskAnd(isin(Column(raw, "age_group"), sel.age_selected),
                    isin(Column(raw, "gender"), sel.gender_selected)),
            isin(Column(raw, "admission_type_id"), sel.adm_selected))

\* What df_raw names after the filter ran: the selection is copied into a new
\* frame and df_raw is never rebound or written.
BaseFilteredInPlace(raw, filtered) == filtered
BaseAfterFilter(raw, filtered) == raw

\* get_filtered_data without its reset button: the widgets drawn, the three
\* selections, the filtered copy, and the session state the run leaves.
get_filtered_data(raw, ss) ==
    LET age_groups == Unique(raw, "age_group")
        genders == Unique(raw, "gender")
        adm_types == Unique(raw, "admission_type_id")
        v_all_age == checkbox(ss, all_age, TRUE)
        v_all_gender == checkbox(ss, all_gender, TRUE)
        v_all_adm == checkbox(ss, all_adm, TRUE)
        sel == [age_selected |->
                    IF v_all_age THEN age_groups
                    ELSE {a \in age_groups : checkbox(ss, age_key(a), FALSE)},
                gender_selected |->
                    IF v_all_gender THEN genders
                    ELSE {g \in genders : checkbox(ss, gender_key(g), FALSE)},
                adm_selected |->
                    IF v_all_adm THEN adm_types
                    ELSE {a \in adm_types : checkbox(ss, adm_key(a), FALSE)}]
        drawn == {all_age, all_gender, all_adm}
                 \cup (IF v_all_age THEN {} ELSE {age_key(a) : a \in age_groups})
                 \cup (IF v_all_gender THEN {}
                       ELSE {gender_key(g) : g \in genders})
                 \cup (IF v_all_adm THEN {} ELSE {adm_key(a) : a \in adm_types})
        kept == {k \in DOMAIN ss : k.prefix \notin ResetPrefixes}
        filtered == BoolIndex(raw, FilterMask(raw, sel))
    IN  [selected |-> sel,
         df |-> filtered,
         df_raw |-> BaseAfterFilter(raw, filtered),
         drawn |-> drawn,
         session_state |->
            [k \in drawn \cup kept |->
                IF k \in drawn
                THEN checkbox(ss, k, k.prefix = "all_")
                ELSE ss[k]]]

(***************************************************************************)
(* compute_kpis.  Rates and the mean are in tenths.                        *)
(***************************************************************************)
\* readmission_rate: "<30" rows over all rows, times 100, one decimal
readmission_rate_any(frame) ==
    IF Len(frame) > 0
    THEN RoundTo(MaskMean(isin(Column(frame, "readmitted"), {"<30", ">30"})),
                 1000)
    ELSE 0
readmission_rate_unguarded(frame) ==
    RoundTo(MaskMean(EqualTo(Column(frame, "readmitted"), "<30")), 1000)
\* The "<30" rows set against the other rows instead of against all rows.
readmission_rate_ratio(frame) ==
    IF Len(frame) > 0
    THEN LET within == EqualTo(Column(frame, "readmitted"), "<30")
         IN  RoundTo(Frac(MaskSum(within), MaskSum(MaskNot(within))), 1000)
    ELSE 0
readmission_rate_of(frame) ==
    IF Len(frame) > 0
    THEN RoundTo(MaskMean(EqualTo(Column(frame, "readmitted"), "<30")), 1000)
    ELSE 0

\* readmitted_df: the rows readmitted within or after 30 days
readmitted_df_early(frame) ==
    BoolIndex(frame, isin(Column(frame, "readmitted"), {"<30"}))
readmitted_df_of(frame) ==
    BoolIndex(frame, isin(Column(frame, "readmitted"), {"<30", ">30"}))

\* avg_los_readmitted: the mean stay of the readmitted rows, one decimal
avg_los_readmitted_of(readmitted_df) ==
    IF Len(readmitted_df) > 0
    THEN RoundTo(ColumnMean(Column(readmitted_df, "time_in_hospital")), 10)
    ELSE 0

\* polypharmacy_rate: readmitted rows with 10 or more medications over the
\* readmitted rows, times 100, one decimal
polypharmacy_rate_dropna(readmitted_df) ==
    LET known == BoolIndex(readmitted_df,
                           GreaterEqual(Column(readmitted_df, "num_medications"), 0))
    IN  IF Len(known) > 0
        THEN RoundTo(MaskMean(GreaterEqual(Column(known, "num_medications"), 10)),
                     1000)
        ELSE 0
polypharmacy_rate_of(readmitted_df) ==
    IF Len(readmitted_df) > 0
    THEN RoundTo(MaskMean(GreaterEqual(Column(readmitted_df, "num_medications"),
                                       10)),
                 1000)
    ELSE 0

\* The snapshot of the frame the previous run filtered (a stale cache).
compute_kpis_stale(frame) ==
    LET readmitted_df == readmitted_df_of(df)
    IN  [readmission_rate |-> readmission_rate_of(df),
         avg_los_readmitted |-> avg_los_readmitted_of(readmitted_df),
         polypharmacy_rate |-> polypharmacy_rate_of(readmitted_df),
         readmitted_df |-> readmitted_df]
compute_kpis(frame) ==
    LET readmitted_df == readmitted_df_of(frame)
    IN  [readmission_rate |-> readmission_rate_of(frame),
         avg_los_readmitted |-> avg_los_readmitted_of(readmitted_df),
         polypharmacy_rate |-> polypharmacy_rate_of(readmitted_df),
         readmitted_df |-> readmitted_df]

(***************************************************************************)
(* show_overview: the three distributions and the odds ratio.              *)
(***************************************************************************)
\* The en dashes of the labels are written as hyphens.
LosBins == <<0, 2, 4, 6, 8, 10, 20>>
LosLabels == <<"1-2", "3-4", "5-6", "7-8", "9-10", "10+">>
MedBins == <<0, 5, 10, 15, 20, 30, 50>>
MedLabels == <<"0-4", "5-9", "10-14", "15-19", "20-29", "30+">>

\* pd.cut(x, bins) with its defaults right=True, include_lowest=False: the
\* number of the interval (bins[i], bins[i+1]] that holds v, and 0 (no
\* category) for a missing value or a value in no interval.
Cut(v, bins) ==
    IF v = NaN THEN 0
    ELSE LET hit == {i \in 1..(Len(bins) - 1) : bins[i] < v /\ v <= bins[i + 1]}
         IN  IF hit = {} THEN 0 ELSE CHOOSE i \in hit : TRUE

\* pd.cut(...).value_counts().sort_index().reset_index(): one row for every
\* category, in category order, with the number of values cut into it.
\* The counts of the bins that occur only, as for a column that is not
\* categorical.
HasCount(row) == row.count > 0
BinDistributionObserved(col, bins, labels) ==
    LET codes == [i \in 1..Len(col) |-> Cut(col[i], bins)]
    IN  SelectSeq([b \in 1..Len(labels) |->
                      [label |-> labels[b],
                       count |-> MaskSum(EqualTo(codes, b))]],
                  HasCount)
BinDistribution(col, bins, labels) ==
    LET codes == [i \in 1..Len(col) |-> Cut(col[i], bins)]
    IN  [b \in 1..Len(labels) |->
            [label |-> labels[b],
             count |-> MaskSum(EqualTo(codes, b))]]

NotShown == [shown |-> FALSE, rows |-> <<>>]
Shown(rows) == [shown |-> TRUE, rows |-> rows]

\* tab2: the length-of-stay distribution, or the no-data message
los_dist_of(frame) ==
    IF Len(frame) > 0
    THEN Shown(BinDistribution(Column(frame, "time_in_hospital"),
                               LosBins, LosLabels))
    ELSE NotShown

\* tab3: the medication distribution of the readmitted rows, or the message
poly_dist_of(readmitted_df) ==
    IF Len(readmitted_df) > 0
    THEN Shown(BinDistribution(Column(readmitted_df, "num_medications"),
                               MedBins, MedLabels))
    ELSE NotShown

\* tab1: the share of every readmission category present, in percent
readmit_dist_of(frame) ==
    IF Len(frame) > 0
    THEN [shown |-> TRUE,
          rows |-> {[Category |-> c,
                     Percent |-> Frac(100 * MaskSum(EqualTo(
                                        Column(frame, "readmitted"), c)),
                                      Len(frame))] :
                        c \in Unique(frame, "readmitted")}]
    ELSE [shown |-> FALSE, rows |-> {}]

\* adj: a zero cell counts as one half in the ratio
adj_none(x) == Frac(x, 1)
adj(x) == IF x > 0 THEN Frac(x, 1) ELSE Frac(1, 2)

\* temp["polypharmacy"]: 10 or more medications, False for a missing count
polypharmacy_flag(frame) == GreaterEqual(Column(frame, "num_medications"), 10)

\* ~temp["polypharmacy"]: every row the flag does not hold for
no_polypharmacy_below(frame) ==
    [i \in 1..Len(frame) |->
        frame[i].num_medications # NaN /\ frame[i].num_medications < 10]
no_polypharmacy(frame) == MaskNot(polypharmacy_flag(frame))

\* temp["readmitted_30_flag"]
readmitted_30_flag(frame) == EqualTo(Column(frame, "readmitted"), "<30")

NoOdds ==
    [computed |-> FALSE, a |-> 0, b |-> 0, c |-> 0, d |-> 0,
     odds_ratio |-> Frac(0, 1), or_rounded |-> 0,
     cont_df |-> [poly |-> <<0, 0>>, nopoly |-> <<0, 0>>]]

\* The odds-ratio expander: the 2x2 counts of temp, the corrected ratio in
\* hundredths and the table of raw counts, or the not-enough-data message.
odds_section(frame) ==
    IF Len(frame) > 0
    THEN LET poly == polypharmacy_flag(frame)
             notpoly == no_polypharmacy(frame)
             flag30 == readmitted_30_flag(frame)
             a == MaskSum(MaskAnd(poly, flag30))
             b == MaskSum(MaskAnd(poly, MaskNot(flag30)))
             c == MaskSum(MaskAnd(notpoly, flag30))
             d == MaskSum(MaskAnd(notpoly, MaskNot(flag30)))
             odds_ratio == FracOver(FracTimes(adj(a), adj(d)),
                                    FracTimes(adj(b), adj(c)))
         IN  [computed |-> TRUE, a |-> a, b |-> b, c |-> c, d |-> d,
              odds_ratio |-> odds_ratio,
              or_rounded |-> RoundTo(odds_ratio, 100),
              cont_df |-> [poly |-> <<a, b>>, nopoly |-> <<c, d>>]]
    ELSE NoOdds

NoOverview ==
    [readmit_dist |-> [shown |-> FALSE, rows |-> {}], los_dist |-> NotShown,
     poly_dist |-> NotShown, odds |-> NoOdds]

show_overview(frame, k) ==
    [readmit_dist |-> readmit_dist_of(frame),
     los_dist |-> los_dist_of(frame),
     poly_dist |-> poly_dist_of(k.readmitted_df),
     odds |-> odds_section(frame)]

(***************************************************************************)
(* show_data_explorer and the EDA page.                                    *)
(***************************************************************************)
SearchTerms == {"", "male", "no"}

\* mask.any(axis=1) of col.astype(str).str.contains(search, case=False): of
\* the texts the model's rows hold, "male" is part of both genders and "no"
\* of the readmission value "NO" only.
SearchMask(frame, term) ==
    [i \in 1..Len(frame) |->
        CASE term = "male" -> frame[i].gender \in {"Female", "Male"}
          [] term = "no" -> frame[i].readmitted = "NO"
          [] OTHER -> FALSE]

\* df_view: the copy of the filtered frame, narrowed by a non-empty search
show_data_explorer(frame, k, term) ==
    IF term # "" THEN BoolIndex(frame, SearchMask(frame, term)) ELSE frame

\* age_readmit of the EDA page: per age group the share of "<30" rows, in
\* percent; nothing is drawn for an empty frame.
eda_age_readmit(frame) ==
    {[age_group |-> g,
      readmitted_30 |->
        LET grp == BoolIndex(frame, EqualTo(Column(frame, "age_group"), g))
        IN  Frac(100 * MaskSum(readmitted_30_flag(grp)), Len(grp))] :
        g \in Unique(frame, "age_group")}

(***************************************************************************)
(* One run of a page script.                                               *)
(***************************************************************************)
FilterPages == {"Overview", "DataExplorer", "EDA"}

NoKpis ==
    [readmission_rate |-> 0, avg_los_readmitted |-> 0,
     polypharmacy_rate |-> 0, readmitted_df |-> <<>>]

EmptyState == [k \in {} |-> TRUE]

\* pages/01_Overview.py, 02_Data_Explorer.py and 03_EDA.py: the filters are
\* drawn and applied, the KPIs computed (not on the EDA page) and the page
\* rendered.  about is TRUE when the run was started by the About button.
RunPage(p, ss, term, about) ==
    \E g \in {get_filtered_data(df_raw, ss)} :
        /\ df_raw' = g.df_raw
        /\ page' = p
        /\ selected' = g.selected
        /\ df' = g.df
        /\ search' = IF p = "DataExplorer" THEN term ELSE ""
        /\ session_state' =
              IF about
              THEN [x \in DOMAIN g.session_state \cup {show_about} |->
                       IF x = show_about
                       THEN ~checkbox(g.session_state, show_about, FALSE)
                       ELSE g.session_state[x]]
              ELSE g.session_state
        /\ \E k \in {IF p = "EDA" THEN NoKpis ELSE compute_kpis(g.df)} :
              /\ kpis' = k
              /\ overview' = IF p = "Overview" THEN show_overview(g.df, k)
                             ELSE NoOverview
              /\ df_view' = IF p = "DataExplorer"
                            THEN show_data_explorer(g.df, k, term)
                            ELSE <<>>
              /\ age_readmit' = IF p = "EDA" THEN eda_age_readmit(g.df) ELSE {}

(***************************************************************************)
(* The user's interactions.                                                *)
(***************************************************************************)
\* Opening one of the three pages that draw the filters.
Navigate(p) ==
    /\ p # page
    /\ RunPage(p, session_state, "", FALSE)

\* Ticking or unticking a filter checkbox that the last run drew.
ToggleCheckbox(k) ==
    /\ page \in FilterPages
    /\ k \in DOMAIN session_state
    /\ k.prefix \in ResetPrefixes
    /\ RunPage(page, [session_state EXCEPT ![k] = ~session_state[k]], search,
               FALSE)

\* "Reset All Filters": the filter keys are popped and st.rerun() starts the
\* script again.
ResetAllFilters ==
    /\ page \in FilterPages
    /\ RunPage(page, PopFilterKeys(session_state), search, FALSE)

\* The About button of the Overview page.
ToggleAbout ==
    /\ page = "Overview"
    /\ RunPage(page, session_state, search, TRUE)

\* Typing into the search box of the Data Explorer.
Search(term) ==
    /\ page = "DataExplorer"
    /\ term # search
    /\ RunPage(page, session_state, term, FALSE)

\* Pressing a download button: the script of the page runs again.
Export ==
    /\ page \in {"Overview", "DataExplorer"}
    /\ RunPage(page, session_state, search, FALSE)

Blank ==
    /\ session_state = EmptyState
    /\ page = "Home"
    /\ search = ""
    /\ selected = [age_selected |-> {}, gender_selected |-> {},
                   adm_selected |-> {}]
    /\ df = <<>>
    /\ kpis = NoKpis
    /\ overview = NoOverview
    /\ df_view = <<>>
    /\ age_readmit = {}

\* After import: the dataset is loaded and the home page (app.py), which
\* draws no filter, is shown.
Init ==
    /\ df_raw \in FilterDatasets
    /\ Blank

Next ==
    \/ \E p \in FilterPages : Navigate(p)
    \/ \E k \in DOMAIN session_state : ToggleCheckbox(k)
    \/ ResetAllFilters
    \/ ToggleAbout
    \/ \E term \in SearchTerms : Search(term)
    \/ Export

Spec == Init /\ [][Next]_vars

\* The aggregations on their own: any dataset of measures, rendered through
\* the pages with the filters as they are first drawn.
InitAgg ==
    /\ df_raw \in AggDatasets
    /\ Blank

NextAgg ==
    \/ \E p \in FilterPages : Navigate(p)
    \/ Export

SpecAgg == InitAgg /\ [][NextAgg]_vars

(***************************************************************************)
(* Properties.                                                             *)
(***************************************************************************)
\* The rows of the frame, by position.
Rows(frame) == 1..Len(frame)

\* frame holds exactly the rows of base at the positions in keep, in base's
\* order and unaltered.
IsSelection(frame, base, keep) ==
    /\ Len(frame) = Cardinality(keep)
    /\ \A j \in Rows(frame) :
          \E i \in keep : /\ Cardinality({x \in keep : x <= i}) = j
                          /\ frame[j] = base[i]

\* r is num/den rounded to the nearest integer (den > 0).
IsNearest(r, num, den) ==
    /\ 2 * (num - r * den) <= den
    /\ 2 * (r * den - num) <= den

KpisComputed == page \in {"Overview", "DataExplorer"}

\* C1: the filter keeps a row iff its age group, its gender and its admission
\* type are each in the corresponding selection; the rows kept are unaltered
\* and in the dataset's order.
ThmC1_FilterKeepsExactlyMatchingRows ==
    page \in FilterPages =>
        IsSelection(df, df_raw,
            {i \in Rows(df_raw) :
                /\ df_raw[i].age_group \in selected.age_selected
                /\ df_raw[i].gender \in selected.gender_selected
                /\ df_raw[i].admission_type_id \in selected.adm_selected})

\* A run that kept one row and dropped another although the dropped row
\* matches in one dimension.
WitC1_SomeKeptSomeDropped ==
    /\ page \in FilterPages
    /\ Len(df) = 1
    /\ Len(df_raw) = 2
    /\ \E i \in Rows(df_raw) :
          /\ df_raw[i] # df[1]
          /\ df_raw[i].age_group \in selected.age_selected

\* The values of a column that lie in [lo, hi).
InLeftClosed(col, lo, hi) ==
    {i \in 1..Len(col) : col[i] # NaN /\ lo <= col[i] /\ col[i] < hi}

RECURSIVE CountSum(_)
CountSum(rows) ==
    IF Len(rows) = 0 THEN 0
    ELSE CountSum(SubSeq(rows, 1, Len(rows) - 1)) + rows[Len(rows)].count

\* C2: every bin counts the values of its left-closed, right-open range: an
\* interior edge (2 days, 10 medications) and 0 are counted in the bin that
\* starts there, and the topmost right edge (20 days, 50 medications) in none.
ClaimC2_BinsAreLeftClosed ==
    page = "Overview" =>
        /\ overview.los_dist.shown =>
              \A b \in 1..Len(LosLabels) :
                  overview.los_dist.rows[b].count =
                      Cardinality(InLeftClosed(Column(df, "time_in_hospital"),
                                               LosBins[b], LosBins[b + 1]))
        /\ overview.poly_dist.shown =>
              \A b \in 1..Len(MedLabels) :
                  overview.poly_dist.rows[b].count =
                      Cardinality(InLeftClosed(
                          Column(kpis.readmitted_df, "num_medications"),
                          MedBins[b], MedBins[b + 1]))

\* C3: the bin counts add up to the number of values inside the overall
\* range of the bin spec (0 <= v < 20 days, 0 <= v < 50 medications); values
\* outside it and missing values are counted nowhere.
ClaimC3_BinCountsSumToInRange ==
    page = "Overview" =>
        /\ overview.los_dist.shown =>
              CountSum(overview.los_dist.rows) =
                  Cardinality(InLeftClosed(Column(df, "time_in_hospital"),
                                           LosBins[1], LosBins[Len(LosBins)]))
        /\ overview.poly_dist.shown =>
              CountSum(overview.poly_dist.rows) =
                  Cardinality(InLeftClosed(
                      Column(kpis.readmitted_df, "num_medications"),
                      MedBins[1], MedBins[Len(MedBins)]))

\* The raw cell counts of the 2x2 table, counted row by row.
Cell(frame, poly, within30) ==
    Cardinality({i \in Rows(frame) :
        /\ (frame[i].num_medications # NaN /\ frame[i].num_medications >= 10)
              = poly
        /\ (frame[i].readmitted = "<30") = within30})

\* Twice the corrected count: a zero cell counts one half.
Twice(x) == IF x > 0 THEN 2 * x ELSE 1

\* C4: for a non-empty subset the odds ratio is (a'd')/(b'c') rounded to two
\* decimals, a zero count being taken as 0.5, so that the denominator is
\* never zero; the table shown holds the raw counts.
ThmC4_OddsRatioCorrectedTableRaw ==
    (page = "Overview" /\ Len(df) > 0) =>
        LET a == Cell(df, TRUE, TRUE)
            b == Cell(df, TRUE, FALSE)
            c == Cell(df, FALSE, TRUE)
            d == Cell(df, FALSE, FALSE)
            o == overview.odds
        IN  /\ o.computed
            /\ o.odds_ratio.den # 0
            /\ o.or_rounded \notin {NaN, Inf}
            /\ IsNearest(o.or_rounded, 100 * Twice(a) * Twice(d),
                         Twice(b) * Twice(c))
            /\ o.cont_df = [poly |-> <<a, b>>, nopoly |-> <<c, d>>]

\* The documented case: raw counts 0, 5, 5, 0 give 0.01 and the raw table.
WitC4_ZeroCellsExample ==
    /\ page = "Overview"
    /\ overview.odds.computed
    /\ overview.odds.cont_df = [poly |-> <<0, 5>>, nopoly |-> <<5, 0>>]
    /\ overview.odds.or_rounded = 1

\* C5: with every row filtered out nothing fails: the three KPIs are 0.0 and
\* the readmitted subset is empty, the odds ratio is reported as not enough
\* data and the distributions as no data.
ThmC5_EmptySubsetIsDefined ==
    /\ (KpisComputed /\ Len(df) = 0) =>
          /\ kpis.readmission_rate = 0
          /\ kpis.avg_los_readmitted = 0
          /\ kpis.polypharmacy_rate = 0
          /\ kpis.readmitted_df = <<>>
    /\ (page = "Overview" /\ Len(df) = 0) =>
          /\ ~overview.odds.computed
          /\ ~overview.readmit_dist.shown
          /\ ~overview.los_dist.shown
          /\ ~overview.poly_dist.shown

\* The Overview of a dataset with rows, all of them filtered out.
WitC5_AllFilteredOut ==
    /\ page = "Overview"
    /\ Len(df_raw) > 0
    /\ Len(df) = 0
    /\ ~overview.odds.computed

\* The rows readmitted within or after 30 days.
ReadmittedRows(frame) ==
    {i \in Rows(frame) : frame[i].readmitted \in {"<30", ">30"}}

\* C6: polypharmacy_rate is the share of readmitted rows with 10 or more
\* medications, in percent to one decimal, 0.0 without readmitted rows; a row
\* with a missing count stays in the denominator and never in the numerator.
ThmC6_PolypharmacyRate ==
    KpisComputed =>
        LET R == ReadmittedRows(df)
            P == {i \in R : /\ df[i].num_medications # NaN
                            /\ df[i].num_medications >= 10}
        IN  IF R = {} THEN kpis.polypharmacy_rate = 0
            ELSE IsNearest(kpis.polypharmacy_rate,
                           1000 * Cardinality(P), Cardinality(R))

\* Three readmitted rows, one of them with a missing count and one with 10
\* medications: 33.3.
WitC6_MissingCountInDenominator ==
    /\ KpisComputed
    /\ kpis.polypharmacy_rate = 333
    /\ \E i \in ReadmittedRows(df) : df[i].num_medications = NaN
    /\ \E i \in ReadmittedRows(df) : df[i].num_medications = 10

\* C7: readmission_rate is the share of "<30" rows among all rows, in percent
\* to one decimal, 0.0 for an empty subset; ">30" rows count in the
\* denominator only.
ThmC7_ReadmissionRate ==
    KpisComputed =>
        LET E == {i \in Rows(df) : df[i].readmitted = "<30"}
        IN  IF Len(df) = 0 THEN kpis.readmission_rate = 0
            ELSE IsNearest(kpis.readmission_rate,
                           1000 * Cardinality(E), Len(df))

\* The documented case: 10 rows, 3 of them "<30" and some ">30": 30.0.
WitC7_ThreeOfTen ==
    /\ KpisComputed
    /\ Len(df) = 10
    /\ Cardinality({i \in Rows(df) : df[i].readmitted = "<30"}) = 3
    /\ \E i \in Rows(df) : df[i].readmitted = ">30"
    /\ kpis.readmission_rate = 300

\* C8: the readmitted subset is exactly the "<30" and ">30" rows of the
\* subset; avg_los_readmitted is non-negative, the mean stay of those rows to
\* one decimal, and 0.0 when there are none.
ThmC8_ReadmittedSubsetAndMeanStay ==
    KpisComputed =>
        LET R == ReadmittedRows(df)
            total == ColumnSum([j \in Rows(kpis.readmitted_df) |->
                                  kpis.readmitted_df[j].time_in_hospital])
        IN  /\ IsSelection(kpis.readmitted_df, df, R)
            /\ kpis.avg_los_readmitted >= 0
            /\ IF R = {} THEN kpis.avg_los_readmitted = 0
               ELSE IsNearest(kpis.avg_los_readmitted, 10 * total,
                              Cardinality(R))

\* A subset with a "NO" row next to readmitted rows of 1 and 2 days: 1.5.
WitC8_NoRowLeftOut ==
    /\ KpisComputed
    /\ \E i \in Rows(df) : df[i].readmitted = "NO"
    /\ \E i \in Rows(df) : df[i].readmitted = ">30"
    /\ Len(kpis.readmitted_df) = 2
    /\ kpis.avg_los_readmitted = 15

\* C9: the four raw counts add up to the number of rows of the subset, rows
\* with a missing medication count included.
ThmC9_CellsSumToSubsetSize ==
    (page = "Overview" /\ overview.odds.computed) =>
        /\ overview.odds.a + overview.odds.b + overview.odds.c
              + overview.odds.d = Len(df)
        /\ overview.odds.cont_df.poly[1] + overview.odds.cont_df.poly[2]
              + overview.odds.cont_df.nopoly[1]
              + overview.odds.cont_df.nopoly[2] = Len(df)

\* A table built from a subset that holds a row with a missing count.
WitC9_MissingCountCounted ==
    /\ page = "Overview"
    /\ overview.odds.computed
    /\ Len(df) = 3
    /\ \E i \in Rows(df) : df[i].num_medications = NaN
    /\ \E i \in Rows(df) : df[i].num_medications = 10

\* C10: no interaction changes the base dataset.
ThmC10_BaseDatasetNeverChanges == [][df_raw' = df_raw]_vars

\* A search over a filtered frame: two derivations deep, the dataset intact.
WitC10_DerivedFramesDiffer ==
    /\ page = "DataExplorer"
    /\ search # ""
    /\ Len(df) < Len(df_raw)
    /\ Len(df_view) < Len(df)

\* The selection the checkboxes stand for, read from the session state alone.
CurrentSelection ==
    [age_selected |->
        IF session_state[all_age] THEN Unique(df_raw, "age_group")
        ELSE {a \in Unique(df_raw, "age_group") : session_state[age_key(a)]},
     gender_selected |->
        IF session_state[all_gender] THEN Unique(df_raw, "gender")
        ELSE {g \in Unique(df_raw, "gender") : session_state[gender_key(g)]},
     adm_selected |->
        IF session_state[all_adm] THEN Unique(df_raw, "admission_type_id")
        ELSE {a \in Unique(df_raw, "admission_type_id") :
                session_state[adm_key(a)]}]

Matches(row, sel) ==
    /\ row.age_group \in sel.age_selected
    /\ row.gender \in sel.gender_selected
    /\ row.admission_type_id \in sel.adm_selected

\* C11: whatever was selected before and whichever page runs, the subset
\* shown is the filter of the full dataset by the selection the checkboxes
\* now stand for, and the KPI snapshot is the snapshot of that subset.
ThmC11_SubsetAndKpisFollowCurrentSelection ==
    KpisComputed =>
        /\ selected = CurrentSelection
        /\ IsSelection(df, df_raw,
                       {i \in Rows(df_raw) : Matches(df_raw[i], CurrentSelection)})
        /\ kpis.readmitted_df = readmitted_df_of(df)
        /\ kpis.readmission_rate = readmission_rate_of(df)
        /\ kpis.avg_los_readmitted = avg_los_readmitted_of(kpis.readmitted_df)
        /\ kpis.polypharmacy_rate = polypharmacy_rate_of(kpis.readmitted_df)

\* The Data Explorer after the age filter was switched off and one age group
\* ticked again: a narrowed subset with its own readmission rate.
WitC11_ExplorerAfterNarrowing ==
    /\ page = "DataExplorer"
    /\ ~session_state[all_age]
    /\ Len(df) = 1
    /\ Len(df_raw) = 2
    /\ kpis.readmission_rate = 0
    /\ \E i \in Rows(df_raw) : df_raw[i].readmitted = "<30"

\* Every distinct value of every dimension.
AllDistinct ==
    [age_selected |-> Unique(df_raw, "age_group"),
     gender_selected |-> Unique(df_raw, "gender"),
     adm_selected |-> Unique(df_raw, "admission_type_id")]

\* C12: every selection is a subset of the distinct values the dataset holds
\* for its dimension, and the first run, before any interaction, selects all
\* of them.
ThmC12_SelectionsWithinDistinctValues ==
    /\ [](/\ selected.age_selected \subseteq AllDistinct.age_selected
          /\ selected.gender_selected \subseteq AllDistinct.gender_selected
          /\ selected.adm_selected \subseteq AllDistinct.adm_selected)
    /\ [][(session_state = EmptyState /\ page' \in FilterPages)
            => selected' = AllDistinct]_vars

\* A run whose age selection is one of two age groups of the dataset.
WitC12_ProperSubsetSelected ==
    /\ page \in FilterPages
    /\ Cardinality(AllDistinct.age_selected) = 2
    /\ Cardinality(selected.age_selected) = 1
    /\ selected.gender_selected = AllDistinct.gender_selected

\* 'Select All' is unticked for the dimension and none of its boxes is ticked.
NothingTicked(all_key, keys) ==
    /\ ~session_state[all_key]
    /\ \A k \in keys : ~session_state[k]

AgeEmpty ==
    NothingTicked(all_age, {age_key(a) : a \in Unique(df_raw, "age_group")})
GenderEmpty ==
    NothingTicked(all_gender, {gender_key(g) : g \in Unique(df_raw, "gender")})
AdmEmpty ==
    NothingTicked(all_adm,
                  {adm_key(a) : a \in Unique(df_raw, "admission_type_id")})

\* C13: when one dimension has nothing selected the filtered subset is
\* empty, whatever the other two dimensions select.
ThmC13_EmptyDimensionEmptiesSubset ==
    (page \in FilterPages /\ (AgeEmpty \/ GenderEmpty \/ AdmEmpty))
        => Len(df) = 0

\* A dataset with rows, gender and admission type fully selected, no age
\* group ticked: nothing is left.
WitC13_OnlyAgeEmpty ==
    /\ page \in FilterPages
    /\ Len(df_raw) > 0
    /\ AgeEmpty
    /\ session_state[all_gender]
    /\ session_state[all_adm]
    /\ Len(df) = 0

\* The selections that select no more than sel in every dimension.
Narrower(sel) ==
    [age_selected : SUBSET sel.age_selected,
     gender_selected : SUBSET sel.gender_selected,
     adm_selected : SUBSET sel.adm_selected]

\* C14: shrinking the selection never adds a row: under every selection that
\* is, dimension by dimension, a subset of the one applied, the rows kept
\* are among the rows kept now, and no more in number.
ThmC14_FilterIsMonotone ==
    page \in FilterPages =>
        \A narrow \in Narrower(selected) :
            LET mask == FilterMask(df_raw, narrow)
            IN  /\ \A i \in Rows(df_raw) :
                      mask[i] => Matches(df_raw[i], selected)
                /\ Len(BoolIndex(df_raw, mask)) <= Len(df)

\* Two rows kept under the selection applied, of which a narrower selection
\* keeps only one.
WitC14_NarrowerKeepsFewer ==
    /\ page \in FilterPages
    /\ Len(df) = 2
    /\ \E narrow \in Narrower(selected) :
          Len(BoolIndex(df_raw, FilterMask(df_raw, narrow))) = 1

\* C15: for a non-empty subset both rates lie between 0 and 100; for an
\* empty subset both are exactly 0.0.
ThmC15_RatesWithinPercentRange ==
    KpisComputed =>
        /\ 0 <= kpis.readmission_rate /\ kpis.readmission_rate <= 1000
        /\ 0 <= kpis.polypharmacy_rate /\ kpis.polypharmacy_rate <= 1000
        /\ Len(df) = 0 =>
              kpis.readmission_rate = 0 /\ kpis.polypharmacy_rate = 0

\* Both ends of the range at once: every row readmitted within 30 days and
\* none of them on 10 or more medications.
WitC15_BothEndsOfRange ==
    /\ KpisComputed
    /\ Len(df) = 3
    /\ kpis.readmission_rate = 1000
    /\ kpis.polypharmacy_rate = 0

\* The labels and the counts of a distribution, in the order shown.
LabelsOf(dist) == [b \in 1..Len(dist.rows) |-> dist.rows[b].label]
CountsOf(dist) == [b \in 1..Len(dist.rows) |-> dist.rows[b].count]

\* C16: a distribution shown lists every bin of its bin spec in definition
\* order, bins without values included with a count of 0; the stays
\* 1, 3, 5, 9, 15 give 1, 1, 1, 0, 1, 1.
ThmC16_EveryBinInDefinitionOrder ==
    page = "Overview" =>
        /\ overview.los_dist.shown => LabelsOf(overview.los_dist) = LosLabels
        /\ overview.poly_dist.shown => LabelsOf(overview.poly_dist) = MedLabels
        /\ Column(df, "time_in_hospital") = <<1, 3, 5, 9, 15>> =>
              /\ overview.los_dist.shown
              /\ CountsOf(overview.los_dist) = <<1, 1, 1, 0, 1, 1>>

\* The documented case, its empty "7-8" bin in fourth place.
WitC16_StaysExample ==
    /\ page = "Overview"
    /\ Column(df, "time_in_hospital") = <<1, 3, 5, 9, 15>>
    /\ overview.los_dist.rows[4] = [label |-> "7-8", count |-> 0]
    /\ overview.los_dist.rows[6] = [label |-> "10+", count |-> 1]

\* What a press of 'Reset All Filters' leaves: the keys that are no filter
\* keys as they were, 'Select All' ticked in all three dimensions and no
\* other filter key, every distinct value selected.
ResetOutcome ==
    /\ \A k \in DOMAIN session_state :
          k.prefix \notin ResetPrefixes =>
              k \in DOMAIN session_state' /\ session_state'[k] = session_state[k]
    /\ \A k \in DOMAIN session_state' :
          k.prefix \notin ResetPrefixes => k \in DOMAIN session_state
    /\ {k \in DOMAIN session_state' : k.prefix \in ResetPrefixes}
          = {all_age, all_gender, all_adm}
    /\ session_state'[all_age]
    /\ session_state'[all_gender]
    /\ session_state'[all_adm]
    /\ selected' = AllDistinct
    /\ page' = page

\* C17: from every state, 'Reset All Filters' pops the keys that start with
\* age_, gender_, adm_ or all_ and no other key, so that the run that follows
\* ticks 'Select All' everywhere and selects every distinct value, as the
\* first run does.
ThmC17_ResetRestoresInitialSelection ==
    [][ResetAllFilters => ResetOutcome]_vars

\* show_about is set, no age group is selected, and the reset is about to
\* change the selection.
WitC17_ResetFromNarrowedWithAbout ==
    /\ page = "Overview"
    /\ show_about \in DOMAIN session_state
    /\ session_state[show_about]
    /\ AgeEmpty
    /\ ~session_state[all_gender]
    /\ Len(df_raw) > 0
    /\ ENABLED (/\ ResetAllFilters
                /\ selected' # selected
                /\ session_state'[show_about]
                /\ Len(df') = Len(df_raw))

====
